---- MODULE Spec2Model ----
(***************************************************************************)
(* Model of src/sudoku.py: the SudokuCSP constraint-propagation engine.    *)
(*                                                                         *)
(* The grid is scaled: boxes are BoxSize x BoxSize, so there are           *)
(* N = BoxSize * BoxSize rows, columns and digits (the source has          *)
(* BoxSize = 3, N = 9).  A cell key f"{col}{row}" is modelled by its       *)
(* position in cell_keys (row-major, as itertools.product(rows, cols)      *)
(* enumerates them).                                                       *)
(***************************************************************************)
EXTENDS Integers, Sequences, FiniteSets, TLC

\* ---------------------------------------------------------------- bounds
BoxSize == 2        \* side of a box (source: 3)
ClueStride == 3     \* the model's board files carry givens only every ClueStride-th line
MaxClues == 4       \* number of lines of a board file that may carry a given
MaxFree == 3        \* cells whose entry domain is arbitrary in SpecTech
MaxSolves == 2      \* calls of solve() on one instance
MaxIter == 12       \* cap on the pass counter of Consistence
MaxCalls == 2       \* direct technique calls in a row in SpecTech
MaxShort == 1       \* lines a board file of SpecLoad may lack at its end
MinSubset == 2      \* range(2, 5): smallest hidden subset
MaxSubset == 4      \* range(2, 5): largest hidden subset

\* --------------------------------------------------------------- geometry
N == BoxSize * BoxSize
cols == 1 .. N                      \* "ABCDEFGHI"
rows == 1 .. N                      \* range(1, 10)
Vals == 1 .. N                      \* set(range(1, 10))
NumCells == N * N

Key(c, r) == (r - 1) * N + c        \* f"{col}{row}", as its index in cell_keys

cell_keys == [k \in 1 .. NumCells |-> Key(((k - 1) % N) + 1, ((k - 1) \div N) + 1)]

Cells == {cell_keys[k] : k \in 1 .. NumCells}

_def_rows_constraints == [i \in rows |-> [id \in cols |-> Key(id, i)]]

_def_cols_constraints == [id \in cols |-> [i \in rows |-> Key(id, i)]]

\* variant: the offsets of a box are not scaled by the side of a box
_def_boxes_constraints_no_stride ==
    [b \in 1 .. N |->
        LET i == (b - 1) \div BoxSize
            j == (b - 1) % BoxSize
        IN [p \in 1 .. N |->
                LET x == (p - 1) \div BoxSize
                    y == (p - 1) % BoxSize
                IN Key(i + x + 1, j + y + 1)]]

\* box (i, j), i, j in 0 .. BoxSize-1, is appended at position i*BoxSize + j + 1;
\* inside it x (column offset) is the outer loop and y (row offset) the inner.
_def_boxes_constraints ==
    [b \in 1 .. N |->
        LET i == (b - 1) \div BoxSize
            j == (b - 1) % BoxSize
        IN [p \in 1 .. N |->
                LET x == (p - 1) \div BoxSize
                    y == (p - 1) % BoxSize
                IN Key(i * BoxSize + x + 1, j * BoxSize + y + 1)]]

varsGroups == _def_rows_constraints \o _def_cols_constraints \o _def_boxes_constraints

GroupCells(g) == {g[j] : j \in 1 .. Len(g)}

\* ------------------------------------------------------------- techniques
\* Every technique maps (domains, group) to the domains it leaves and the
\* flag it returns.
Result(doms, chg) == [doms |-> doms, anyChange |-> chg]

RECURSIVE AllDifLoop(_, _, _, _)
AllDifLoop(doms, g, i, chg) ==
    IF i > Len(g) THEN Result(doms, chg)
    ELSE LET var == g[i] IN
         IF Cardinality(doms[var]) = 1
         THEN LET val_to_remove == CHOOSE x \in doms[var] : TRUE
                  hit == {c \in GroupCells(g) : c # var /\ val_to_remove \in doms[c]}
                  nd == [c \in DOMAIN doms |->
                            IF c \in hit THEN doms[c] \ {val_to_remove} ELSE doms[c]]
              IN AllDifLoop(nd, g, i + 1, chg \/ hit # {})
         ELSE AllDifLoop(doms, g, i + 1, chg)

\* variant: a fixed value is removed only from the cells after its cell
RECURSIVE AllDifLoopForward(_, _, _, _)
AllDifLoopForward(doms, g, i, chg) ==
    IF i > Len(g) THEN Result(doms, chg)
    ELSE LET var == g[i] IN
         IF Cardinality(doms[var]) = 1
         THEN LET val_to_remove == CHOOSE x \in doms[var] : TRUE
                  hit == {g[j] : j \in {k \in (i + 1) .. Len(g) : val_to_remove \in doms[g[k]]}}
                  nd == [c \in DOMAIN doms |->
                            IF c \in hit THEN doms[c] \ {val_to_remove} ELSE doms[c]]
              IN AllDifLoopForward(nd, g, i + 1, chg \/ hit # {})
         ELSE AllDifLoopForward(doms, g, i + 1, chg)

_all_dif_forward(doms, g) == AllDifLoopForward(doms, g, 1, FALSE)

\* variant: anyChange is set for every fixed cell met, removal or not
RECURSIVE AllDifLoopFlagAlways(_, _, _, _)
AllDifLoopFlagAlways(doms, g, i, chg) ==
    IF i > Len(g) THEN Result(doms, chg)
    ELSE LET var == g[i] IN
         IF Cardinality(doms[var]) = 1
         THEN LET val_to_remove == CHOOSE x \in doms[var] : TRUE
                  hit == {c \in GroupCells(g) : c # var /\ val_to_remove \in doms[c]}
                  nd == [c \in DOMAIN doms |->
                            IF c \in hit THEN doms[c] \ {val_to_remove} ELSE doms[c]]
              IN AllDifLoopFlagAlways(nd, g, i + 1, TRUE)
         ELSE AllDifLoopFlagAlways(doms, g, i + 1, chg)

_all_dif_flag_always(doms, g) == AllDifLoopFlagAlways(doms, g, 1, FALSE)

\* variant: a fixed value is removed from every other cell of the board
RECURSIVE AllDifLoopEverywhere(_, _, _, _)
AllDifLoopEverywhere(doms, g, i, chg) ==
    IF i > Len(g) THEN Result(doms, chg)
    ELSE LET var == g[i] IN
         IF Cardinality(doms[var]) = 1
         THEN LET val_to_remove == CHOOSE x \in doms[var] : TRUE
                  hit == {c \in DOMAIN doms : c # var /\ val_to_remove \in doms[c]}
                  nd == [c \in DOMAIN doms |->
                            IF c \in hit THEN doms[c] \ {val_to_remove} ELSE doms[c]]
              IN AllDifLoopEverywhere(nd, g, i + 1, chg \/ hit # {})
         ELSE AllDifLoopEverywhere(doms, g, i + 1, chg)

_all_dif_everywhere(doms, g) == AllDifLoopEverywhere(doms, g, 1, FALSE)

_all_dif(doms, g) == AllDifLoop(doms, g, 1, FALSE)

RECURSIVE ExcValueLoop(_, _, _, _)
ExcValueLoop(doms, g, num, chg) ==
    IF num > N THEN Result(doms, chg)
    ELSE LET cells_with_num == {c \in GroupCells(g) : num \in doms[c]} IN
         IF Cardinality(cells_with_num) = 1
         THEN LET target_var == CHOOSE c \in cells_with_num : TRUE IN
              IF Cardinality(doms[target_var]) > 1
              THEN ExcValueLoop([doms EXCEPT ![target_var] = {num}], g, num + 1, TRUE)
              ELSE ExcValueLoop(doms, g, num + 1, chg)
         ELSE ExcValueLoop(doms, g, num + 1, chg)

\* variant: the values are tried from N down to 1
RECURSIVE ExcValueLoopDescending(_, _, _, _)
ExcValueLoopDescending(doms, g, num, chg) ==
    IF num < 1 THEN Result(doms, chg)
    ELSE LET cells_with_num == {c \in GroupCells(g) : num \in doms[c]} IN
         IF Cardinality(cells_with_num) = 1
         THEN LET target_var == CHOOSE c \in cells_with_num : TRUE IN
              IF Cardinality(doms[target_var]) > 1
              THEN ExcValueLoopDescending([doms EXCEPT ![target_var] = {num}], g, num - 1, TRUE)
              ELSE ExcValueLoopDescending(doms, g, num - 1, chg)
         ELSE ExcValueLoopDescending(doms, g, num - 1, chg)

_exc_value_descending(doms, g) == ExcValueLoopDescending(doms, g, N, FALSE)

\* variant: a cell is counted when it is unfixed, whether or not it holds num
RECURSIVE ExcValueLoopAnyCell(_, _, _, _)
ExcValueLoopAnyCell(doms, g, num, chg) ==
    IF num > N THEN Result(doms, chg)
    ELSE LET cells_with_num == {c \in GroupCells(g) : Cardinality(doms[c]) > 1} IN
         IF Cardinality(cells_with_num) = 1
         THEN LET target_var == CHOOSE c \in cells_with_num : TRUE IN
              ExcValueLoopAnyCell([doms EXCEPT ![target_var] = {num}], g, num + 1, TRUE)
         ELSE ExcValueLoopAnyCell(doms, g, num + 1, chg)

_exc_value_any_cell(doms, g) == ExcValueLoopAnyCell(doms, g, 1, FALSE)

_exc_value(doms, g) == ExcValueLoop(doms, g, 1, FALSE)

\* domain_map is built from the domains at entry; its keys are visited in
\* insertion order, i.e. in the order of their first cell in the group.
RECURSIVE NakedLoop(_, _, _, _, _)
NakedLoop(entry, doms, g, i, chg) ==
    IF i > Len(g) THEN Result(doms, chg)
    ELSE LET domain == entry[g[i]]
             isKey == /\ Cardinality(domain) > 1
                      /\ \A j \in 1 .. (i - 1) : entry[g[j]] # domain
             cells_to_keep == {c \in GroupCells(g) : entry[c] = domain}
         IN IF isKey /\ Cardinality(domain) = Cardinality(cells_to_keep)
            THEN LET hit == {c \in GroupCells(g) \ cells_to_keep : doms[c] \cap domain # {}}
                     nd == [c \in DOMAIN doms |->
                               IF c \in hit THEN doms[c] \ domain ELSE doms[c]]
                 IN NakedLoop(entry, nd, g, i + 1, chg \/ hit # {})
            ELSE NakedLoop(entry, doms, g, i + 1, chg)

\* variant: N == K is not asked of a shared domain
RECURSIVE NakedLoopAnyCount(_, _, _, _, _)
NakedLoopAnyCount(entry, doms, g, i, chg) ==
    IF i > Len(g) THEN Result(doms, chg)
    ELSE LET domain == entry[g[i]]
             isKey == /\ Cardinality(domain) > 1
                      /\ \A j \in 1 .. (i - 1) : entry[g[j]] # domain
             cells_to_keep == {c \in GroupCells(g) : entry[c] = domain}
         IN IF isKey
            THEN LET hit == {c \in GroupCells(g) \ cells_to_keep : doms[c] \cap domain # {}}
                     nd == [c \in DOMAIN doms |->
                               IF c \in hit THEN doms[c] \ domain ELSE doms[c]]
                 IN NakedLoopAnyCount(entry, nd, g, i + 1, chg \/ hit # {})
            ELSE NakedLoopAnyCount(entry, doms, g, i + 1, chg)

_naked_subsets_any_count(doms, g) == NakedLoopAnyCount(doms, doms, g, 1, FALSE)

\* variant: the values are removed from every cell of the group, the cells
\* that share the domain included
RECURSIVE NakedLoopAllCells(_, _, _, _, _)
NakedLoopAllCells(entry, doms, g, i, chg) ==
    IF i > Len(g) THEN Result(doms, chg)
    ELSE LET domain == entry[g[i]]
             isKey == /\ Cardinality(domain) > 1
                      /\ \A j \in 1 .. (i - 1) : entry[g[j]] # domain
             cells_to_keep == {c \in GroupCells(g) : entry[c] = domain}
         IN IF isKey /\ Cardinality(domain) = Cardinality(cells_to_keep)
            THEN LET hit == {c \in GroupCells(g) : doms[c] \cap domain # {}}
                     nd == [c \in DOMAIN doms |->
                               IF c \in hit THEN doms[c] \ domain ELSE doms[c]]
                 IN NakedLoopAllCells(entry, nd, g, i + 1, chg \/ hit # {})
            ELSE NakedLoopAllCells(entry, doms, g, i + 1, chg)

_naked_subsets_all_cells(doms, g) == NakedLoopAllCells(doms, doms, g, 1, FALSE)

\* variant: anyChange is set as soon as a naked subset is found
RECURSIVE NakedLoopFlagFound(_, _, _, _, _)
NakedLoopFlagFound(entry, doms, g, i, chg) ==
    IF i > Len(g) THEN Result(doms, chg)
    ELSE LET domain == entry[g[i]]
             isKey == /\ Cardinality(domain) > 1
                      /\ \A j \in 1 .. (i - 1) : entry[g[j]] # domain
             cells_to_keep == {c \in GroupCells(g) : entry[c] = domain}
         IN IF isKey /\ Cardinality(domain) = Cardinality(cells_to_keep)
            THEN LET hit == {c \in GroupCells(g) \ cells_to_keep : doms[c] \cap domain # {}}
                     nd == [c \in DOMAIN doms |->
                               IF c \in hit THEN doms[c] \ domain ELSE doms[c]]
                 IN NakedLoopFlagFound(entry, nd, g, i + 1, TRUE)
            ELSE NakedLoopFlagFound(entry, doms, g, i + 1, chg)

_naked_subsets_flag_found(doms, g) == NakedLoopFlagFound(doms, doms, g, 1, FALSE)

_naked_subsets(doms, g) == NakedLoop(doms, doms, g, 1, FALSE)

\* num_to_cells is computed once from the domains at entry.  Every hidden
\* subset found (a pair of num_set and its cell_union) intersects the domains
\* of its cells with num_set, so the order in which the combinations are
\* visited does not show in the result.
num_to_cells(doms, g) ==
    LET unfixed == {c \in GroupCells(g) : Cardinality(doms[c]) > 1}
    IN [num \in Vals |-> {c \in unfixed : num \in doms[c]}]

\* it.combinations(range(1, 10), N) for N in range(2, 5)
Combinations == {num_set \in SUBSET Vals : Cardinality(num_set) \in MinSubset .. MaxSubset}

_hidden_subsets(doms, g) ==
    LET ntc == num_to_cells(doms, g)
        found == {p \in {<<num_set, UNION {ntc[num] : num \in num_set}>> :
                             num_set \in Combinations} :
                     Cardinality(p[2]) = Cardinality(p[1])}
    IN IF found = {} THEN Result(doms, FALSE)
       ELSE LET nd == [c \in DOMAIN doms |->
                          LET mine == {p \in found : c \in p[2]}
                          IN IF mine = {} THEN doms[c]
                             ELSE {v \in doms[c] : \A p \in mine : v \in p[1]}]
            IN Result(nd, nd # doms)

Registered == <<"AllDif", "ExcVal", "NakedSubsets">>

Techniques == {"AllDif", "ExcVal", "NakedSubsets", "HiddenSubsets"}

Apply(name, doms, g) ==
    CASE name = "AllDif" -> _all_dif(doms, g)
      [] name = "ExcVal" -> _exc_value(doms, g)
      [] name = "NakedSubsets" -> _naked_subsets(doms, g)
      [] name = "HiddenSubsets" -> _hidden_subsets(doms, g)

\* variant: for each technique, in order, every group
constraints_technique_major ==
    [k \in 1 .. (Len(Registered) * Len(varsGroups)) |->
        [name |-> Registered[((k - 1) \div Len(varsGroups)) + 1],
         group |-> varsGroups[((k - 1) % Len(varsGroups)) + 1]]]

\* self.constraints: for each group, in order, the three registered techniques
constraints ==
    [k \in 1 .. (Len(Registered) * Len(varsGroups)) |->
        [name |-> Registered[((k - 1) % Len(Registered)) + 1],
         group |-> varsGroups[((k - 1) \div Len(Registered)) + 1]]]

\* variant: the flag of the last pair replaces the flag of the pass
AccumulateLast(anyChangeAux, any) == anyChangeAux

\* anyChange = anyChangeAux or anyChange
Accumulate(anyChangeAux, any) == anyChangeAux \/ any

\* Consistence as a function of the registration list and the domains: the
\* for loop from its k-th pair on, then the while loop up to its break.
RECURSIVE ForLoop(_, _, _, _)
ForLoop(cons, doms, k, any) ==
    IF k > Len(cons) THEN Result(doms, any)
    ELSE LET r == Apply(cons[k].name, doms, cons[k].group)
         IN IF Accumulate(r.anyChange, any)
            THEN ForLoop(cons, r.doms, k + 1, TRUE)
            ELSE ForLoop(cons, r.doms, k + 1, FALSE)

RECURSIVE WhileLoop(_, _, _)
WhileLoop(cons, doms, iter) ==
    LET pass == ForLoop(cons, doms, 1, FALSE)
    IN IF pass.anyChange THEN WhileLoop(cons, pass.doms, iter + 1)
       ELSE [doms |-> pass.doms, iteration |-> iter + 1]

Consistence(cons, doms) == WhileLoop(cons, doms, 1)

\* ------------------------------------------------------------- board load
\* A board file is a sequence of lines; a line is modelled by the digit it
\* holds, 0 standing for the placeholder.  A line beyond the end of the file
\* reads as the empty string, which is no digit.
IsGiven(valor) == valor \in 1 .. 9 /\ valor # 0

load_board(file) ==
    [key \in Cells |->
        IF key <= Len(file) /\ IsGiven(file[key]) THEN {file[key]} ELSE Vals]

ClueLines == {1 + k * ClueStride : k \in 0 .. (MaxClues - 1)} \cap (1 .. NumCells)

BoardFiles ==
    {[k \in 1 .. NumCells |-> IF k \in ClueLines THEN clue[k] ELSE 0] :
        clue \in [ClueLines -> 0 .. N]}

is_solved(doms) == ~ \E c \in DOMAIN doms : Cardinality(doms[c]) > 1

\* ------------------------------------------------------------------ state
VARIABLES
    board,       \* the lines of the board file given to the constructor
    var_doms,    \* self.var_doms
    pc,          \* "new" (constructed), "run" (inside Consistence), "done"
                 \* (solve returned), "checked" (is_solved returned); in SpecTech
                 \* and SpecGroup "tech" (before a call) and "called" (a technique
                 \* returned); in SpecLoad "init" (inside the constructor, before
                 \* load_board), "not_found" and "read_error" (exit() in load_board)
    idx,         \* position of the for loop of Consistence in self.constraints;
                 \* in SpecGroup the position of the entry group in self.varsGroups
    anyChange,   \* anyChange of Consistence
    iteration,   \* iteration of Consistence
    solves,      \* number of calls of solve so far
    last,        \* the last technique call: name, group, domains at entry, value returned
    converged,   \* the domains when the first solve returned
    solved_ret,  \* the value is_solved returned
    calls        \* number of direct technique calls so far (SpecTech)

vars == <<board, var_doms, pc, idx, anyChange, iteration, solves, last, converged,
          solved_ret, calls>>

NoCall(doms) == [name |-> "none", group |-> <<>>, before |-> doms, ret |-> FALSE]

\* SudokuCSP(board_filepath): domains 1..N, then load_board; the groups and
\* the registration list are the constant definitions above.
Init ==
    /\ board \in BoardFiles
    /\ var_doms = load_board(board)
    /\ pc = "new"
    /\ idx = 1
    /\ anyChange = FALSE
    /\ iteration = 1
    /\ solves = 0
    /\ last = NoCall(var_doms)
    /\ converged = var_doms
    /\ solved_ret = FALSE
    /\ calls = 0

\* solve(): enters Consistence (iteration = 1, first pass begins)
Solve ==
    /\ pc \in {"new", "done"}
    /\ solves < MaxSolves
    /\ pc' = "run"
    /\ solves' = solves + 1
    /\ iteration' = 1
    /\ anyChange' = FALSE
    /\ idx' = 1
    /\ UNCHANGED <<board, var_doms, last, converged, solved_ret, calls>>

\* the for loop of Consistence moves to its next (technique, group) pair
ForLoopStep ==
    /\ pc = "run"
    /\ idx <= Len(constraints)
    /\ idx' = idx + 1

\* one turn of the for loop: anyChangeAux = constraint_func(group_vars, verbose)
CallConstraint ==
    /\ ForLoopStep
    /\ LET c == constraints[idx]
           r == Apply(c.name, var_doms, c.group)
       IN /\ var_doms' = r.doms
          /\ anyChange' = Accumulate(r.anyChange, anyChange)
          /\ last' = [name |-> c.name, group |-> c.group, before |-> var_doms,
                      ret |-> r.anyChange]
    /\ UNCHANGED <<board, pc, iteration, solves, converged, solved_ret, calls>>

\* end of a pass that changed something: iteration += 1, next turn of while True
NextPass ==
    /\ pc = "run"
    /\ idx > Len(constraints)
    /\ anyChange
    /\ iteration < MaxIter
    /\ iteration' = iteration + 1
    /\ anyChange' = FALSE
    /\ idx' = 1
    /\ UNCHANGED <<board, var_doms, pc, solves, last, converged, solved_ret, calls>>

\* variant: the loop breaks before iteration is incremented
HaltBeforeIncrement ==
    /\ pc = "run"
    /\ idx > Len(constraints)
    /\ ~ anyChange
    /\ pc' = "done"
    /\ converged' = IF solves = 1 THEN var_doms ELSE converged
    /\ UNCHANGED <<board, var_doms, idx, anyChange, iteration, solves, last, solved_ret, calls>>

\* end of a pass that changed nothing: iteration += 1, break, solve returns
Halt ==
    /\ pc = "run"
    /\ idx > Len(constraints)
    /\ ~ anyChange
    /\ iteration' = iteration + 1
    /\ pc' = "done"
    /\ converged' = IF solves = 1 THEN var_doms ELSE converged
    /\ UNCHANGED <<board, var_doms, idx, anyChange, solves, last, solved_ret, calls>>

\* is_solved(), asked of a constructed or of a propagated instance
IsSolved ==
    /\ pc \in {"new", "done"}
    /\ solved_ret' = is_solved(var_doms)
    /\ pc' = "checked"
    /\ UNCHANGED <<board, var_doms, idx, anyChange, iteration, solves, last, converged, calls>>

Next == Solve \/ CallConstraint \/ NextPass \/ Halt \/ IsSolved

Spec == Init /\ [][Next]_vars

\* The interpreter keeps executing the single thread: inside Consistence the
\* for loop keeps turning (a technique call always returns, and it is the only
\* step that moves idx) and the end of a pass is always taken.
FairSpec == Spec /\ WF_idx(ForLoopStep) /\ WF_vars(NextPass) /\ WF_vars(Halt)

\* ------------------------------------------------- construction, step by step
\* The constructor seen as steps: the domains are 1..N (pc = "init"), then
\* load_board opens and reads the file.  The file may lack lines at its end.
LoadFiles == {SubSeq(file, 1, NumCells - k) : file \in BoardFiles, k \in 0 .. MaxShort}

InitLoad ==
    /\ board \in LoadFiles
    /\ var_doms = [key \in Cells |-> Vals]
    /\ pc = "init"
    /\ idx = 1
    /\ anyChange = FALSE
    /\ iteration = 1
    /\ solves = 0
    /\ last = NoCall(var_doms)
    /\ converged = var_doms
    /\ solved_ret = FALSE
    /\ calls = 0

\* the file opens and every readline returns: load_board returns normally
LoadBoard ==
    /\ pc = "init"
    /\ var_doms' = load_board(board)
    /\ pc' = "new"
    /\ last' = NoCall(var_doms')
    /\ converged' = var_doms'
    /\ UNCHANGED <<board, idx, anyChange, iteration, solves, solved_ret, calls>>

\* there is no file at board_filepath: except FileNotFoundError, exit()
LoadNotFound ==
    /\ pc = "init"
    /\ pc' = "not_found"
    /\ UNCHANGED <<board, var_doms, idx, anyChange, iteration, solves, last, converged,
                   solved_ret, calls>>

\* reading line k of the file raises (an I/O or decoding error of the
\* environment): except Exception, exit(); the lines before k are loaded
LoadReadError ==
    /\ pc = "init"
    /\ \E k \in 1 .. Len(board) :
          var_doms' = [key \in Cells |-> IF key < k THEN load_board(board)[key] ELSE Vals]
    /\ pc' = "read_error"
    /\ UNCHANGED <<board, idx, anyChange, iteration, solves, last, converged,
                   solved_ret, calls>>

NextLoad == LoadBoard \/ LoadNotFound \/ LoadReadError \/ Next

SpecLoad == InitLoad /\ [][NextLoad]_vars

\* ---------------------------------------------- techniques called directly
\* The domain store at entry: arbitrary candidate sets in the first MaxFree
\* cells, the constructor's 1..N elsewhere.  Any technique is then called on
\* any group, any number of times.
FreeCells == {cell_keys[k] : k \in 1 .. MaxFree}

InitTech ==
    /\ board = [k \in 1 .. NumCells |-> 0]
    /\ \E f \in [FreeCells -> SUBSET Vals] :
          var_doms = [c \in Cells |-> IF c \in FreeCells THEN f[c] ELSE Vals]
    /\ pc = "tech"
    /\ idx = 1
    /\ anyChange = FALSE
    /\ iteration = 1
    /\ solves = 0
    /\ last = NoCall(var_doms)
    /\ converged = var_doms
    /\ solved_ret = FALSE
    /\ calls = 0

\* a direct call: constraint_func(group_vars, verbose) with any technique and group
CallTechnique ==
    /\ pc = "tech"
    /\ calls < MaxCalls
    /\ calls' = calls + 1
    /\ pc' = "called"
    /\ \E name \in Techniques, gi \in 1 .. Len(varsGroups) :
          LET r == Apply(name, var_doms, varsGroups[gi])
          IN /\ var_doms' = r.doms
             /\ last' = [name |-> name, group |-> varsGroups[gi], before |-> var_doms,
                         ret |-> r.anyChange]
    /\ UNCHANGED <<board, idx, anyChange, iteration, solves, converged, solved_ret>>

\* the caller drops the returned flag and is ready for the next call
DropResult ==
    /\ pc = "called"
    /\ pc' = "tech"
    /\ last' = NoCall(var_doms)
    /\ UNCHANGED <<board, var_doms, idx, anyChange, iteration, solves, converged,
                   solved_ret, calls>>

NextTech == CallTechnique \/ DropResult

SpecTech == InitTech /\ [][NextTech]_vars

\* ------------------------------------------- one technique call on one group
\* The domain store at entry: arbitrary candidate sets in all the cells of one
\* group (the first row, the first column or the first box), the constructor's
\* 1..N elsewhere.  idx holds the position of that group in self.varsGroups;
\* one technique is then called on it.
EntryGroups == {1, N + 1, 2 * N + 1}

InitGroup ==
    /\ board = [k \in 1 .. NumCells |-> 0]
    /\ idx \in EntryGroups
    /\ \E f \in [1 .. N -> SUBSET Vals] :
          var_doms = [c \in Cells |->
                         IF c \in GroupCells(varsGroups[idx])
                         THEN f[CHOOSE j \in 1 .. N : varsGroups[idx][j] = c]
                         ELSE Vals]
    /\ pc = "tech"
    /\ anyChange = FALSE
    /\ iteration = 1
    /\ solves = 0
    /\ last = NoCall(var_doms)
    /\ converged = var_doms
    /\ solved_ret = FALSE
    /\ calls = 0

\* constraint_func(group_vars, verbose) with any technique on the entry group
CallOnGroup ==
    /\ pc = "tech"
    /\ calls = 0
    /\ calls' = calls + 1
    /\ pc' = "called"
    /\ \E name \in Techniques :
          LET r == Apply(name, var_doms, varsGroups[idx])
          IN /\ var_doms' = r.doms
             /\ last' = [name |-> name, group |-> varsGroups[idx], before |-> var_doms,
                         ret |-> r.anyChange]
    /\ UNCHANGED <<board, idx, anyChange, iteration, solves, converged, solved_ret>>

NextGroup == CallOnGroup

SpecGroup == InitGroup /\ [][NextGroup]_vars

\* ----------------------------------------------------------------- claims
RECURSIVE SumCard(_, _)
SumCard(doms, k) == IF k = 0 THEN 0 ELSE Cardinality(doms[cell_keys[k]]) + SumCard(doms, k - 1)

\* number of candidates in a domain store
Candidates(doms) == SumCard(doms, NumCells)

\* C1: a technique call, whatever the technique, the group and the calls
\* before it, leaves every cell with a subset of the domain it had at entry.
C1_Monotonic ==
    pc = "called" => \A c \in Cells : var_doms[c] \subseteq last.before[c]

C1_Witness ==
    /\ pc = "called"
    /\ calls >= 2
    /\ \E c \in Cells : var_doms[c] # last.before[c] /\ var_doms[c] \subseteq last.before[c]

\* passes of the current Consistence that have reported a change so far
ChangedPasses ==
    IF pc = "run" THEN (iteration - 1) + (IF anyChange THEN 1 ELSE 0)
    ELSE IF solves > 0 THEN iteration - 2 ELSE 0

\* C2: Consistence always halts, and every pass that reports a change has
\* removed a candidate, so the passes that report a change are at most the
\* candidates of the initial domains.
C2_Termination ==
    /\ [](pc = "run" => <>(pc = "done"))
    /\ [](ChangedPasses + Candidates(var_doms) <= Candidates(load_board(board)))

C2_Witness ==
    /\ pc = "done"
    /\ solves = 1
    /\ ChangedPasses >= 3
    /\ \E c \in Cells : var_doms[c] = {}

\* C3: a second solve on the converged store changes no domain, every pair
\* it applies returns False, and it halts after one pass.
C3_FixpointIdempotent ==
    solves >= 2 =>
        /\ var_doms = converged
        /\ ~ anyChange
        /\ idx > 1 => ~ last.ret
        /\ pc = "done" => iteration - 1 = 1

C3_Witness ==
    /\ solves = 2
    /\ pc = "done"
    /\ converged # load_board(board)
    /\ iteration - 1 = 1

\* C4: after a call of _all_dif on a group, no two distinct cells of the
\* group are both fixed to the same value.
C4_AllDifSound ==
    (pc = "called" /\ last.name = "AllDif") =>
        \A c1, c2 \in GroupCells(last.group) :
            (c1 # c2 /\ Cardinality(var_doms[c1]) = 1) => var_doms[c1] # var_doms[c2]

\* the permutations of the digits, one per row of a grid
Perms == {p \in [cols -> Vals] : \A i, j \in cols : i # j => p[i] # p[j]}

AllDifferentIn(a, g) == \A j, k \in 1 .. Len(g) : j # k => a[g[j]] # a[g[k]]

\* the grids of k rows, each a permutation, with no digit twice in a column
RECURSIVE LatinRows(_)
LatinRows(k) ==
    IF k = 0 THEN {<<>>}
    ELSE {t \in {Append(s, p) : s \in LatinRows(k - 1), p \in Perms} :
             \A r \in 1 .. (k - 1) : \A c \in cols : t[r][c] # t[k][c]}

\* the complete grids whose 3N groups all hold different values
ValidCompletions ==
    {a \in {[key \in Cells |-> s[((key - 1) \div N) + 1][((key - 1) % N) + 1]] :
                s \in LatinRows(N)} :
        \A gi \in 1 .. Len(varsGroups) : AllDifferentIn(a, varsGroups[gi])}

\* a completion takes the value of every given of the file
Agrees(a, file) == \A key \in Cells : IsGiven(file[key]) => a[key] = file[key]

\* C5: every valid completion of the initial board stays inside the domains
\* in every state of solve (so with one, no domain is ever empty).
C5_NoSolutionLost ==
    \A a \in ValidCompletions :
        Agrees(a, board) => \A c \in Cells : a[c] \in var_doms[c]

C5_Witness ==
    /\ pc = "done"
    /\ var_doms # load_board(board)
    /\ \E a \in ValidCompletions :
          Agrees(a, board) /\ \A c \in Cells : var_doms[c] = {a[c]}

\* C6: is_solved returns true exactly when every domain has one candidate.
C6_SolvedCheck ==
    pc = "checked" => (solved_ret <=> \A c \in Cells : Cardinality(var_doms[c]) = 1)

\* two distinct cells of one group are given the same value
DuplicateGivens(file) ==
    \E gi \in 1 .. Len(varsGroups) :
        LET g == varsGroups[gi] IN
        \E j, k \in 1 .. Len(g) : j # k /\ IsGiven(file[g[j]]) /\ file[g[j]] = file[g[k]]

\* C7: after solve on a board with two equal givens in a group, some domain
\* is empty and is_solved returns false.
C7_ContradictionSurfaced ==
    (pc = "checked" /\ solves > 0 /\ DuplicateGivens(board)) =>
        /\ \E c \in Cells : var_doms[c] = {}
        /\ ~ solved_ret

\* C8: when is_solved returns true after solve, every group holds every
\* digit exactly once as a fixed value.
C8_SolvedImpliesValid ==
    (pc = "checked" /\ solves > 0 /\ solved_ret) =>
        \A gi \in 1 .. Len(varsGroups) : \A v \in Vals :
            Cardinality({c \in GroupCells(varsGroups[gi]) : var_doms[c] = {v}}) = 1

\* C9: when solve has halted, the value of a fixed cell is in the domain of
\* no other cell of any of its groups.
C9_ConsistentAtConvergence ==
    pc = "done" =>
        \A gi \in 1 .. Len(varsGroups) :
            \A c1, c2 \in GroupCells(varsGroups[gi]) :
                (c1 # c2 /\ Cardinality(var_doms[c1]) = 1) => var_doms[c1] \cap var_doms[c2] = {}

C9_Witness ==
    /\ pc = "done"
    /\ \E c \in Cells : Cardinality(var_doms[c]) = 1 /\ ~ IsGiven(board[c])
    /\ \E c \in Cells : Cardinality(var_doms[c]) > 1

Min(S) == CHOOSE x \in S : \A y \in S : x <= y

\* C10 as stated: a value held at entry by exactly one unfixed cell of the
\* group is that cell's only candidate after a call of _exc_value.
C10_HiddenSingleAsStated ==
    (pc = "called" /\ last.name = "ExcVal") =>
        \A v \in Vals : \A c \in GroupCells(last.group) :
            {x \in GroupCells(last.group) :
                 v \in last.before[x] /\ Cardinality(last.before[x]) > 1} = {c}
            => var_doms[c] = {v}

\* C10 amended: a value held at entry by exactly one cell of the group, an
\* unfixed one, leaves that cell fixed to one of its entry candidates not
\* above the value, and to the value itself when it is the cell's smallest
\* candidate.
C10_HiddenSingle ==
    (pc = "called" /\ last.name = "ExcVal") =>
        \A v \in Vals : \A c \in GroupCells(last.group) :
            ({x \in GroupCells(last.group) : v \in last.before[x]} = {c}
             /\ Cardinality(last.before[c]) > 1)
            => /\ \E w \in last.before[c] : w <= v /\ var_doms[c] = {w}
               /\ v = Min(last.before[c]) => var_doms[c] = {v}

C10_Witness ==
    /\ pc = "called"
    /\ last.name = "ExcVal"
    /\ \E v \in Vals : \E c \in GroupCells(last.group) :
          /\ {x \in GroupCells(last.group) : v \in last.before[x]} = {c}
          /\ Cardinality(last.before[c]) > 1
          /\ v # Min(last.before[c])
          /\ var_doms[c] = {v}


\* the value sets that are the exact domain of exactly as many unfixed cells
\* of group g as they have values, two at least
NakedSets(doms, g) ==
    {D \in {doms[c] : c \in GroupCells(g)} :
        /\ Cardinality(D) >= 2
        /\ Cardinality({c \in GroupCells(g) : doms[c] = D}) = Cardinality(D)}

\* C11 as stated: after a call of _naked_subsets no cell outside a naked
\* subset of the entry domains retains a value of it, and the cells of the
\* subset have the domain they had at entry.
C11_NakedSubsetAsStated ==
    (pc = "called" /\ last.name = "NakedSubsets") =>
        \A D \in NakedSets(last.before, last.group) :
            \A c \in GroupCells(last.group) :
                IF last.before[c] = D THEN var_doms[c] = D
                ELSE var_doms[c] \cap D = {}

\* C11 amended: no cell outside a naked subset retains a value of it, and a
\* cell of the subset keeps exactly its values that belong to no other naked
\* subset of the group (all of them when no other naked subset shares a value).
C11_NakedSubset ==
    (pc = "called" /\ last.name = "NakedSubsets") =>
        LET sets == NakedSets(last.before, last.group) IN
        \A D \in sets :
            \A c \in GroupCells(last.group) :
                IF last.before[c] = D
                THEN var_doms[c] = D \ UNION (sets \ {D})
                ELSE var_doms[c] \cap D = {}

C11_Witness ==
    /\ pc = "called"
    /\ last.name = "NakedSubsets"
    /\ \E D \in NakedSets(last.before, last.group) :
          /\ \E c \in GroupCells(last.group) :
                last.before[c] # D /\ last.before[c] \cap D # {} /\ var_doms[c] # {}
          /\ \A c \in GroupCells(last.group) : last.before[c] = D => var_doms[c] = D


\* C12: a board file that has not exactly NumCells lines never gets past the
\* loader: the run ends in the read error outcome (or the file is absent),
\* and no instance is built from it.
C12_MalformedRejected ==
    Len(board) # NumCells => pc \in {"init", "not_found", "read_error"}


Reverse(seq) == [k \in 1 .. Len(seq) |-> seq[Len(seq) + 1 - k]]

\* the registration list built from the groups and the techniques in some
\* other order: for each group of groupOrder, the techniques of techOrder
RegistrationOf(groupOrder, techOrder) ==
    [k \in 1 .. (Len(techOrder) * Len(groupOrder)) |->
        [name |-> techOrder[((k - 1) % Len(techOrder)) + 1],
         group |-> groupOrder[((k - 1) \div Len(techOrder)) + 1]]]

\* a few orderings of the registered pairs: the groups backwards, the
\* techniques backwards, the boxes before the columns before the rows
Orderings ==
    {RegistrationOf(Reverse(varsGroups), Registered),
     RegistrationOf(varsGroups, Reverse(Registered)),
     RegistrationOf(_def_boxes_constraints \o _def_cols_constraints \o _def_rows_constraints,
                    Registered)}

\* C13: the domains at convergence are those Consistence reaches with the
\* registered pairs in any other order.
C13_OrderIndependent ==
    (pc = "done" /\ solves = 1) =>
        \A cons \in Orderings : Consistence(cons, load_board(board)).doms = var_doms

RowOf(c) == ((c - 1) \div N) + 1
ColOf(c) == ((c - 1) % N) + 1
BoxOf(c) == <<(ColOf(c) - 1) \div BoxSize, (RowOf(c) - 1) \div BoxSize>>

\* the cells of the gi-th group of a pass: rows 1..N, then columns 1..N, then
\* the boxes, column block by column block
ExpectedGroup(gi) ==
    IF gi <= N THEN {c \in Cells : RowOf(c) = gi}
    ELSE IF gi <= 2 * N THEN {c \in Cells : ColOf(c) = gi - N}
    ELSE {c \in Cells : BoxOf(c) = <<(gi - 2 * N - 1) \div BoxSize, (gi - 2 * N - 1) % BoxSize>>}

ExpectedName(k) == <<"AllDif", "ExcVal", "NakedSubsets">>[((k - 1) % 3) + 1]

\* what a step of Consistence does, by the position it is taken from
PassStep ==
    /\ (pc = "run" /\ idx <= 3 * 3 * N) =>
          /\ pc' = "run"
          /\ idx' = idx + 1
          /\ iteration' = iteration
          /\ last'.name = ExpectedName(idx)
          /\ GroupCells(last'.group) = ExpectedGroup(((idx - 1) \div 3) + 1)
          /\ last'.before = var_doms
          /\ anyChange' = (anyChange \/ last'.ret)
    /\ (pc = "run" /\ idx > 3 * 3 * N) =>
          /\ var_doms' = var_doms
          /\ IF anyChange
             THEN pc' = "run" /\ idx' = 1 /\ ~ anyChange' /\ iteration' = iteration + 1
             ELSE pc' = "done"
    /\ (pc # "run" /\ pc' = "run") => (idx' = 1 /\ ~ anyChange')
    /\ pc' = "done" => (pc = "run" /\ idx = 3 * 3 * N + 1 /\ ~ anyChange)

\* C14: inside a pass every step applies the next pair of the registration
\* order to the current domains and ORs its flag into the pass flag, nothing
\* else moves; a pass ends only after the last pair; it is followed by a new
\* pass from the first pair when some pair returned a change, and by the halt
\* when none did.
C14_PassStructure == [][PassStep]_vars

C14_Witness ==
    /\ pc = "done"
    /\ solves = 1
    /\ iteration - 1 >= 3
    /\ last.name = "NakedSubsets"
    /\ GroupCells(last.group) = ExpectedGroup(3 * N)
    /\ ~ last.ret

\* the passes over the registered pairs it takes until one leaves every
\* domain as it found it, that one included
RECURSIVE PassesUntilStable(_)
PassesUntilStable(doms) ==
    LET after == ForLoop(constraints, doms, 1, FALSE).doms
    IN IF after = doms THEN 1 ELSE 1 + PassesUntilStable(after)

\* C15: the number reported on halting (iteration - 1) is the number of passes
\* that changed a domain plus the final pass that changed none.
C15_ReportedPasses ==
    pc = "done" =>
        /\ iteration - 1 >= 1
        /\ iteration - 1 =
              PassesUntilStable(IF solves = 1 THEN load_board(board) ELSE converged)

C15_Witness ==
    /\ pc = "done"
    /\ solves = 1
    /\ iteration - 1 >= 4


\* the values that the domains doms force into cell c of group g: c is not
\* fixed and is the only cell of the group that holds the value
ForcedAtEntry(doms, g, c) ==
    {v \in Vals : /\ {x \in GroupCells(g) : v \in doms[x]} = {c}
                  /\ Cardinality(doms[c]) > 1}

\* C16: a call of _exc_value leaves the domains that deciding every value
\* against the domains at entry gives: a cell that some value is forced into
\* at entry is fixed to such a value, every other cell is as it was.
C16_PerValueIndependent ==
    (pc = "called" /\ last.name = "ExcVal") =>
        \A c \in Cells :
            LET forced == IF c \in GroupCells(last.group)
                          THEN ForcedAtEntry(last.before, last.group, c) ELSE {}
            IN IF forced # {} THEN \E v \in forced : var_doms[c] = {v}
               ELSE var_doms[c] = last.before[c]

\* C17: a technique call returns True exactly when it leaves some domain
\* different from what it was at entry.
C17_ChangedSignalExact ==
    pc = "called" => (last.ret <=> var_doms # last.before)

C17_Witness ==
    /\ pc = "called"
    /\ calls >= 2
    /\ last.name = "NakedSubsets"
    /\ last.ret
    /\ var_doms # last.before

\* the groups as constructed, by count, size and kind
GroupTopology ==
    /\ Len(varsGroups) = 3 * N
    /\ Len(constraints) = 3 * Len(varsGroups)
    /\ \A gi \in 1 .. Len(varsGroups) :
          /\ Len(varsGroups[gi]) = N
          /\ Cardinality(GroupCells(varsGroups[gi])) = N
          /\ GroupCells(varsGroups[gi]) \subseteq Cells
    /\ \A c \in Cells :
          /\ Cardinality({gi \in 1 .. Len(varsGroups) : c \in GroupCells(varsGroups[gi])}) = 3
          /\ \E gi \in 1 .. N :
                c \in GroupCells(varsGroups[gi])
                /\ \A x \in GroupCells(varsGroups[gi]) : RowOf(x) = RowOf(c)
          /\ \E gi \in (N + 1) .. (2 * N) :
                c \in GroupCells(varsGroups[gi])
                /\ \A x \in GroupCells(varsGroups[gi]) : ColOf(x) = ColOf(c)
          /\ \E gi \in (2 * N + 1) .. (3 * N) :
                c \in GroupCells(varsGroups[gi])
                /\ \A x \in GroupCells(varsGroups[gi]) : BoxOf(x) = BoxOf(c)

\* C18: there are 3N groups of N distinct cells each; the first N are the
\* rows, the next N the columns, the last N the boxes, so every cell is in
\* exactly one group of each kind; three pairs are registered per group, and
\* every technique call of solve is given one of these groups.
C18_GroupTopology ==
    /\ last.name # "none" => \E gi \in 1 .. (3 * N) : last.group = varsGroups[gi]
    /\ GroupTopology

C18_Witness ==
    /\ pc = "done"
    /\ solves = 2
    /\ converged # load_board(board)
    /\ \E c \in Cells :
          Cardinality({gi \in 1 .. Len(varsGroups) : c \in GroupCells(varsGroups[gi])}) = 3

\* the ways to give the cells of group g pairwise different values, each
\* from the cell's domain (a[j] is the value of the j-th cell)
GroupAssignments(doms, g) == {a \in Perms : \A j \in 1 .. Len(g) : a[j] \in doms[g[j]]}

\* C19: a call of _hidden_subsets removes from no cell of the group a value
\* that the cell takes in an assignment of pairwise different values that the
\* domains at entry admit.
C19_HiddenSubsetSound ==
    (pc = "called" /\ last.name = "HiddenSubsets") =>
        \A a \in GroupAssignments(last.before, last.group) :
            \A j \in 1 .. Len(last.group) : a[j] \in var_doms[last.group[j]]

\* C20: a technique call leaves every cell outside the group it was given
\* with the domain it had at entry.
C20_Frame ==
    pc = "called" =>
        \A c \in Cells \ GroupCells(last.group) : var_doms[c] = last.before[c]

C20_Witness ==
    /\ pc = "called"
    /\ \E c \in GroupCells(last.group) : var_doms[c] # last.before[c]
    /\ \E c \in Cells \ GroupCells(last.group), x \in GroupCells(last.group) :
          /\ last.before[c] # Vals
          /\ (last.before[x] \ var_doms[x]) \cap var_doms[c] # {}

====
